---- MODULE Spec2Model ----
(***************************************************************************)
(* Model of the cs-epm-project publishing scripts and serving application. *)
(*                                                                         *)
(*   data_prep.py       uploads data/processed and data/artifacts          *)
(*   model_register.py  probes / creates the model repository and uploads  *)
(*   deploy_to_hf.py    uploads the deployment folder to the Space         *)
(*   deployment/app.py  Streamlit application: cached load, prediction     *)
(*                                                                         *)
(* One operating-system process runs at a time (proc); its position in the *)
(* script is pc.  The remote store is the environment: every call to it    *)
(* ends with one of the results the client library can produce.            *)
(***************************************************************************)
EXTENDS Integers, Sequences, FiniteSets

VARIABLES
    proc,         \* running process: "none", "data", "model", "deploy", "app"
    pc,           \* position of the running process in its script
    token,        \* HF_TOKEN as read by os.getenv at process start
    dirExists,    \* whether the local root folder exists
    files,        \* names of the files present in the local root
    artifactsDir, \* whether data/artifacts exists (data_prep.py only)
    missing,      \* missing_files as computed by the script
    ops,          \* remote-store calls made by the running process, in order
    repoPresent,  \* remote store: whether the model repository exists
    prev,         \* reconcile outcome of the last model_register.py run that probed
    cache,        \* st.cache_resource entry of load_model_and_metadata
    dlModel,      \* hf_hub_download calls that returned best_model.joblib
    dlMeta,       \* hf_hub_download calls that returned model_metadata.json
    tmpModel,     \* local `model` inside load_model_and_metadata
    cacheHit,     \* whether this script run got its pair from the stored value
    requestFailed,\* whether a submitted request of this process has raised
    inputDict,    \* input_dict built from the form in the current script run
    inputData,    \* input_data handed to the model in the current script run
    predictCalls, \* calls of model.predict / model.predict_proba in this run
    prediction,   \* model.predict(input_data)[0]
    shown,        \* label rendered by st.error / st.success
    err           \* what ended the run: the message printed before sys.exit(1),
                  \* or the exception that was not caught

vars == <<proc, pc, token, dirExists, files, artifactsDir, missing, ops,
          repoPresent, prev, cache, dlModel, dlMeta, tmpModel, cacheHit,
          requestFailed, inputDict, inputData, predictCalls, prediction, shown, err>>

pubVars == <<token, dirExists, files, artifactsDir, missing, ops>>
appVars == <<cache, dlModel, dlMeta, tmpModel, cacheHit, requestFailed, inputDict, inputData,
             predictCalls, prediction, shown>>

-----------------------------------------------------------------------------
(* Bounds *)

MaxLoads == 2     \* downloads of the model artifact by one serving process
MaxCols == 2      \* longest feature_columns list of a metadata document

-----------------------------------------------------------------------------
(* Values *)

None == "<None>"                     \* Python's None (os.getenv of an unset name)
Tokens == {None, "", "hf_token"}

Publishers == {"data", "model", "deploy"}

RECURSIVE Range(_)
Range(s) == IF s = <<>> THEN {} ELSE {Head(s)} \cup Range(Tail(s))

-----------------------------------------------------------------------------
(* Publishers: data_prep.py, model_register.py, deploy_to_hf.py *)

\* required_files of each script, in the order the script lists them.
RequiredFiles(p) ==
    IF p = "data" THEN <<"X_train.csv", "y_train.csv", "X_test.csv", "y_test.csv">>
    ELSE IF p = "model" THEN <<"best_model.joblib", "model_metadata.json">>
    ELSE <<"Dockerfile", "app.py", "requirements.txt">>

\* Files a local root may hold: the required ones and one that is not required.
LocalFiles(p) == Range(RequiredFiles(p)) \cup {"README.md"}


\* Mutant: `if HF_TOKEN is None`.
TokenIsNone(t) == t = None

\* `if not HF_TOKEN`: None and the empty string are both falsy.
TokenMissing(t) == t = None \/ t = ""


\* Mutant: the check stops at the first file it does not find.
MissingFilesFirstOnly(required, present) ==
    LET all == SelectSeq(required, LAMBDA f : f \notin present)
    IN  IF all = <<>> THEN <<>> ELSE <<Head(all)>>

\* missing_files = [f for f in required_files if not (root / f).exists()]
MissingFiles(required, present) ==
    SelectSeq(required, LAMBDA f : f \notin present)


\* Mutant: the script reports the missing files and goes on.
AfterValidateNoExit(p, m) == IF p = "model" THEN "probe" ELSE "upload"

\* `if missing_files: sys.exit(1)`; model_register.py goes on to repo_info,
\* data_prep.py and deploy_to_hf.py go straight on to upload_folder.
AfterValidate(p, m) ==
    IF m # <<>> THEN "failed"
    ELSE IF p = "model" THEN "probe"
    ELSE "upload"

\* api.repo_info: returns, raises RepositoryNotFoundError, or raises another error.
ProbeResults(present) ==
    IF present THEN {"present", "error"} ELSE {"not_found", "error"}


\* Mutant: `except Exception:` in place of `except RepositoryNotFoundError:`.
AfterProbeAnyError(r) == IF r = "present" THEN "upload" ELSE "create"

\* Mutant: create_repo is called whatever repo_info answered.
AfterProbeAlwaysCreate(r) == "create"

\* try: repo_info ... except RepositoryNotFoundError: create_repo; any other
\* exception is not caught and ends the script.
AfterProbe(r) ==
    IF r = "present" THEN "upload"
    ELSE IF r = "not_found" THEN "create"
    ELSE "failed"

\* create_repo (exist_ok left False): fails on an existing repository, and may
\* fail on an absent one.
CreateResults(present) ==
    IF present THEN {"error"} ELSE {"ok", "error"}


\* Mutant: the exception of create_repo is swallowed.
AfterCreateSwallow(r) == "upload"

\* An exception of create_repo is not caught; on return the script uploads.
AfterCreate(r) == IF r = "ok" THEN "upload" ELSE "failed"

\* api.upload_folder returns or raises.
UploadResults == {"ok", "error"}


\* Mutant: the exception of the first upload_folder is swallowed.
AfterUploadSwallow(p, artifacts, r) ==
    IF p = "data" /\ artifacts THEN "upload_artifacts"
    ELSE IF r = "ok" THEN "done" ELSE "failed"

\* An exception of the first upload_folder is not caught; data_prep.py goes on
\* to the artifacts folder when it exists.
AfterUpload(p, artifacts, r) ==
    IF r # "ok" THEN "failed"
    ELSE IF p = "data" /\ artifacts THEN "upload_artifacts"
    ELSE "done"

\* path_in_repo of the first upload_folder call of each script.
PathInRepo(p) == IF p = "data" THEN "processed" ELSE ""

Call(op, arg, r) == [op |-> op, arg |-> arg, result |-> r]

Calls(log, op) == SelectSeq(log, LAMBDA c : c.op = op)

NoReconcile == [outcome |-> "none", creates |-> 0]

\* What the reconcile step (repo_info / create_repo) of a finished run did.
ReconcileOutcome(log) ==
    LET probes == Calls(log, "probe_exists")
        creates == Calls(log, "create_repository")
    IN  [outcome |->
            IF \E i \in 1..Len(probes) : probes[i].result = "present" THEN "present"
            ELSE IF \E i \in 1..Len(creates) : creates[i].result = "ok" THEN "created"
            ELSE "failed",
         creates |-> Len(creates)]

\* The state of a serving process that has not run its script yet.
AppIdle ==
    /\ cache = <<>> /\ dlModel = 0 /\ dlMeta = 0 /\ tmpModel = 0
    /\ cacheHit = FALSE
    /\ requestFailed = FALSE /\ inputDict = <<>>
    /\ inputData = <<>> /\ predictCalls = 0 /\ prediction = -1
    /\ shown = ""

Init ==
    /\ proc = "none" /\ pc = "none"
    /\ token = None /\ dirExists = FALSE /\ files = {} /\ artifactsDir = FALSE
    /\ missing = <<>> /\ ops = <<>>
    /\ repoPresent \in BOOLEAN
    /\ prev = NoReconcile
    /\ AppIdle /\ err = ""

\* The operating system starts one of the three scripts.
StartPublisher ==
    /\ proc = "none"
    /\ \E p \in Publishers, t \in Tokens, d \in BOOLEAN, a \in BOOLEAN :
       \E fs \in SUBSET LocalFiles(p) :
          /\ d \/ fs = {}
          /\ p = "data" \/ ~a
          /\ proc' = p /\ pc' = "token"
          /\ token' = t /\ dirExists' = d /\ files' = fs /\ artifactsDir' = a
    /\ missing' = <<>> /\ ops' = <<>>
    /\ UNCHANGED <<repoPresent, prev, err>> /\ UNCHANGED appVars

\* HF_TOKEN = os.getenv("HF_TOKEN"); if not HF_TOKEN: sys.exit(1)
CheckToken ==
    /\ proc \in Publishers /\ pc = "token"
    /\ pc' = IF TokenMissing(token) THEN "failed" ELSE "dir"
    /\ err' = IF pc' = "failed" THEN "HF_TOKEN is not set or empty" ELSE err
    /\ UNCHANGED <<proc, repoPresent, prev>> /\ UNCHANGED pubVars /\ UNCHANGED appVars

\* if not <root>.exists(): sys.exit(1)
CheckDir ==
    /\ proc \in Publishers /\ pc = "dir"
    /\ pc' = IF dirExists THEN "validate" ELSE "failed"
    /\ err' = IF pc' = "failed" THEN "folder not found" ELSE err
    /\ UNCHANGED <<proc, repoPresent, prev>> /\ UNCHANGED pubVars /\ UNCHANGED appVars

\* missing_files = [...]; if missing_files: sys.exit(1)
Validate ==
    /\ proc \in Publishers /\ pc = "validate"
    /\ missing' = MissingFiles(RequiredFiles(proc), files)
    /\ pc' = AfterValidate(proc, missing')
    /\ err' = IF pc' = "failed" THEN "Missing files" ELSE err
    /\ UNCHANGED <<proc, token, dirExists, files, artifactsDir, ops, repoPresent, prev>>
    /\ UNCHANGED appVars

\* model_register.py: api.repo_info(repo_id, repo_type) inside try/except
ProbeExists ==
    /\ proc \in Publishers /\ pc = "probe"
    /\ \E r \in ProbeResults(repoPresent) :
          /\ ops' = Append(ops, Call("probe_exists", "", r))
          /\ pc' = AfterProbe(r)
    /\ err' = IF pc' = "failed" THEN "HfHubHTTPError" ELSE err
    /\ UNCHANGED <<proc, token, dirExists, files, artifactsDir, missing, repoPresent, prev>>
    /\ UNCHANGED appVars

\* model_register.py: create_repo(repo_id, repo_type, private=False, token)
CreateRepository ==
    /\ proc \in Publishers /\ pc = "create"
    /\ \E r \in CreateResults(repoPresent) :
          /\ ops' = Append(ops, Call("create_repository", "", r))
          /\ repoPresent' = (repoPresent \/ r = "ok")
          /\ pc' = AfterCreate(r)
    /\ err' = IF pc' = "failed" THEN "HfHubHTTPError" ELSE err
    /\ UNCHANGED <<proc, token, dirExists, files, artifactsDir, missing, prev>>
    /\ UNCHANGED appVars

\* api.upload_folder of the local root (processed / models / deployment)
UploadFolder ==
    /\ proc \in Publishers /\ pc = "upload"
    /\ \E r \in UploadResults :
          /\ ops' = Append(ops, Call("upload_folder", PathInRepo(proc), r))
          /\ pc' = AfterUpload(proc, artifactsDir, r)
    /\ err' = IF pc' = "failed" THEN "HfHubHTTPError" ELSE err
    /\ UNCHANGED <<proc, token, dirExists, files, artifactsDir, missing, repoPresent, prev>>
    /\ UNCHANGED appVars

\* data_prep.py: if artifacts_dir.exists(): api.upload_folder(artifacts_dir, ...)
UploadArtifacts ==
    /\ proc = "data" /\ pc = "upload_artifacts"
    /\ \E r \in UploadResults :
          /\ ops' = Append(ops, Call("upload_folder", "artifacts", r))
          /\ pc' = IF r = "ok" THEN "done" ELSE "failed"
    /\ err' = IF pc' = "failed" THEN "HfHubHTTPError" ELSE err
    /\ UNCHANGED <<proc, token, dirExists, files, artifactsDir, missing, repoPresent, prev>>
    /\ UNCHANGED appVars

\* The script ends: by falling off its end, by sys.exit(1) or by an exception.
Exit ==
    /\ proc \in Publishers /\ pc \in {"done", "failed"}
    /\ prev' = IF Calls(ops, "probe_exists") # <<>> THEN ReconcileOutcome(ops) ELSE prev
    /\ proc' = "none" /\ pc' = "none"
    /\ token' = None /\ dirExists' = FALSE /\ files' = {} /\ artifactsDir' = FALSE
    /\ missing' = <<>> /\ ops' = <<>> /\ err' = ""
    /\ UNCHANGED repoPresent /\ UNCHANGED appVars

NextPublish ==
    \/ StartPublisher \/ CheckToken \/ CheckDir \/ Validate \/ ProbeExists
    \/ CreateRepository \/ UploadFolder \/ UploadArtifacts \/ Exit

-----------------------------------------------------------------------------
(* Serving application: deployment/app.py under Streamlit.  Every request  *)
(* (page load or form submission) runs the script from its first line.     *)

\* Keys of input_dict, one per st.number_input of the form.
FormFields ==
    {"Engine_RPM", "Lub_Oil_Pressure", "Fuel_Pressure",
     "Coolant_Pressure", "Lub_Oil_Temperature", "Coolant_Temperature"}

\* The order in which input_dict lists its keys.
FormOrder ==
    <<"Engine_RPM", "Lub_Oil_Pressure", "Fuel_Pressure",
      "Coolant_Pressure", "Lub_Oil_Temperature", "Coolant_Temperature">>

\* Sample sensor readings entered in the form.
Readings == {1, 2}

\* Column names a published metadata document may list: two of the form's
\* fields and one the form does not have.
SampleColumns == {"Engine_RPM", "Fuel_Pressure", "Vibration"}

FeatureLists == UNION {[1..n -> SampleColumns] : n \in 0..MaxCols}

DisplayNames == {"Healthy", "Broken"}

ClassMappings == UNION {[K -> DisplayNames] : K \in SUBSET {"0", "1"}}

\* model_metadata.json as json.load returns it: a dict that may or may not
\* hold the keys the script reads.
MetadataDocs ==
    [feature_columns : FeatureLists, class_mapping : ClassMappings]
        \cup [feature_columns : FeatureLists]
        \cup [class_mapping : ClassMappings]

\* Versions of best_model.joblib the remote store may serve.
ModelVersions == {1, 2}

\* input_dict: the six readings of the form.  The fields no sample metadata
\* document lists keep one reading; the others take every sample reading.
InputDicts ==
    {[f \in FormFields |-> IF f \in DOMAIN r THEN r[f] ELSE 1] :
        r \in [FormFields \cap SampleColumns -> Readings]}

\* Labels the classifier can return.
Labels == {0, 1, 2}

\* hf_hub_download followed by joblib.load / json.load: both return ("ok"),
\* the download raises ("error"), or the file is fetched and its
\* deserialization raises ("corrupt").
DownloadResults == {"ok", "error", "corrupt"}

\* The exception a failed load ends the script run with.
LoadError(r) == IF r = "corrupt" THEN "DeserializationError" ELSE "DownloadError"

\* Whether hf_hub_download returned the file.
Fetched(r) == r \in {"ok", "corrupt"}

\* dict.get(key, default)
DictGet(d, k, default) == IF k \in DOMAIN d THEN d[k] ELSE default

\* FEATURE_COLUMNS = metadata.get('feature_columns', [])
FeatureColumns(md) == DictGet(md, "feature_columns", <<>>)

\* CLASS_MAPPING = metadata.get('class_mapping', {'0': 'Normal', '1': 'Faulty'})
ClassMapping(md) ==
    DictGet(md, "class_mapping",
            [k \in {"0", "1"} |-> IF k = "0" THEN "Normal" ELSE "Faulty"])


\* Mutant: reindex(columns=FEATURE_COLUMNS, fill_value=0), which fills a column
\* the request does not have.
\* Mutant: the listed columns are kept in the order the form built them,
\* not in the order of FEATURE_COLUMNS.
SelectColumnsPositional(input_dict, cols) ==
    IF \E i \in 1..Len(cols) : cols[i] \notin DOMAIN input_dict
    THEN [raised |-> TRUE, data |-> <<>>]
    ELSE LET Listed(f) == \E i \in 1..Len(cols) : cols[i] = f
             kept == SelectSeq(FormOrder, Listed)
         IN  [raised |-> FALSE,
              data |-> [i \in 1..Len(kept) |-> input_dict[kept[i]]]]

SelectColumnsFill(input_dict, cols) ==
    [raised |-> FALSE,
     data |-> [i \in 1..Len(cols) |->
                  IF cols[i] \in DOMAIN input_dict THEN input_dict[cols[i]] ELSE 0]]

\* input_data = pd.DataFrame([input_dict])[FEATURE_COLUMNS]: raises KeyError
\* when a listed column is not a key of input_dict; otherwise the row's values
\* in the order of FEATURE_COLUMNS.
SelectColumns(input_dict, cols) ==
    IF \E i \in 1..Len(cols) : cols[i] \notin DOMAIN input_dict
    THEN [raised |-> TRUE, data |-> <<>>]
    ELSE [raised |-> FALSE, data |-> [i \in 1..Len(cols) |-> input_dict[cols[i]]]]

RECURSIVE WeightedSum(_, _)
WeightedSum(x, i) ==
    IF i > Len(x) THEN 0 ELSE i * x[i] + WeightedSum(x, i + 1)

\* model.predict(input_data)[0]: the fitted classifier is a fixed function of
\* the artifact and of the input vector, sensitive to the order of its entries.
ModelPredict(m, x) == (m + WeightedSum(x, 1)) % Cardinality(Labels)


\* The key a raw label has in class_mapping.
LabelKey(label) == IF label = 0 THEN "0" ELSE IF label = 1 THEN "1" ELSE "2"

\* Mutant: the raw label itself is looked up, with a fixed default.
DisplayLabelByKey(label, mapping) ==
    DictGet(mapping, LabelKey(label), IF label = 1 THEN "FAULTY" ELSE "NORMAL")

\* if prediction == 1: CLASS_MAPPING.get('1', 'FAULTY')
\* else:               CLASS_MAPPING.get('0', 'NORMAL')
DisplayLabel(label, mapping) ==
    IF label = 1 THEN DictGet(mapping, "1", "FAULTY")
    ELSE DictGet(mapping, "0", "NORMAL")


\* Mutant: the decorator is missing, every call runs the function body.
CacheNeverHit(c) == FALSE

\* @st.cache_resource: the call returns the stored value when there is one.
CacheHit(c) == c # <<>>

\* The platform starts the application; HF_TOKEN = os.getenv("HF_TOKEN") is
\* read and not checked.
StartApp ==
    /\ proc = "none"
    /\ \E t \in Tokens : token' = t
    /\ proc' = "app" /\ pc' = "idle"
    /\ UNCHANGED <<dirExists, files, artifactsDir, missing, ops, repoPresent, prev, err>>
    /\ UNCHANGED appVars

\* load_model_and_metadata() with a stored value: no call of the function body.
LoadCached ==
    /\ proc = "app" /\ pc = "idle" /\ CacheHit(cache)
    /\ pc' = "loaded" /\ cacheHit' = TRUE
    /\ UNCHANGED <<proc, repoPresent, prev, cache, dlModel, dlMeta, tmpModel,
                   requestFailed, inputDict, inputData, predictCalls, prediction,
                   shown, err>>
    /\ UNCHANGED pubVars

\* load_model_and_metadata() body, first half: hf_hub_download(MODEL_FILENAME,
\* token=HF_TOKEN); joblib.load
DownloadModel ==
    /\ proc = "app" /\ pc = "idle" /\ ~CacheHit(cache)
    /\ dlModel < MaxLoads
    /\ \E r \in DownloadResults, m \in ModelVersions :
          /\ dlModel' = IF Fetched(r) THEN dlModel + 1 ELSE dlModel
          /\ IF r = "ok"
             THEN tmpModel' = m /\ pc' = "dl_meta" /\ err' = err
             ELSE tmpModel' = 0 /\ pc' = "raised" /\ err' = LoadError(r)
    /\ UNCHANGED <<proc, repoPresent, prev, cache, dlMeta, cacheHit, requestFailed,
                   inputDict,                   inputData,
                   predictCalls, prediction, shown>>
    /\ UNCHANGED pubVars

\* load_model_and_metadata() body, second half: hf_hub_download(METADATA_FILENAME,
\* token=HF_TOKEN); json.load; the returned pair is stored by st.cache_resource.
\* An exception leaves nothing stored.
DownloadMetadata ==
    /\ proc = "app" /\ pc = "dl_meta"
    /\ \E r \in DownloadResults, md \in MetadataDocs :
          /\ dlMeta' = IF Fetched(r) THEN dlMeta + 1 ELSE dlMeta
          /\ IF r = "ok"
             THEN cache' = <<[model |-> tmpModel, metadata |-> md]>>
                  /\ pc' = "loaded" /\ err' = err
             ELSE cache' = cache /\ pc' = "raised" /\ err' = LoadError(r)
    /\ tmpModel' = 0
    /\ UNCHANGED <<proc, repoPresent, prev, dlModel, cacheHit, requestFailed,
                   inputDict,                   inputData,
                   predictCalls, prediction, shown>>
    /\ UNCHANGED pubVars

\* The form: without a submission the script run ends after rendering it; with
\* one, input_dict is built and its columns are selected.
SubmitForm ==
    /\ proc = "app" /\ pc = "loaded"
    /\ \E submitted \in BOOLEAN, input_dict \in InputDicts :
          LET frame == SelectColumns(input_dict, FeatureColumns(cache[1].metadata)) IN
          IF ~submitted
          THEN pc' = "rendered" /\ inputDict' = inputDict
               /\ requestFailed' = requestFailed
               /\ inputData' = inputData /\ err' = err
          ELSE IF frame.raised
          THEN pc' = "raised" /\ inputDict' = <<input_dict>>
               /\ requestFailed' = TRUE
               /\ inputData' = inputData /\ err' = "KeyError"
          ELSE pc' = "framed" /\ inputDict' = <<input_dict>>
               /\ requestFailed' = requestFailed
               /\ inputData' = frame.data /\ err' = err
    /\ UNCHANGED <<proc, repoPresent, prev, cache, dlModel, dlMeta, tmpModel,
                   cacheHit, predictCalls, prediction, shown>>
    /\ UNCHANGED pubVars

\* prediction = model.predict(input_data)[0]
\* probabilities = model.predict_proba(input_data)[0]
\* followed by the rendering of the label
Predict ==
    /\ proc = "app" /\ pc = "framed"
    /\ predictCalls' = predictCalls + 2
    /\ prediction' = ModelPredict(cache[1].model, inputData)
    /\ shown' = DisplayLabel(prediction', ClassMapping(cache[1].metadata))
    /\ pc' = "shown"
    /\ UNCHANGED <<proc, repoPresent, prev, cache, dlModel, dlMeta, tmpModel,
                   cacheHit, requestFailed, inputDict, inputData, err>>
    /\ UNCHANGED pubVars

\* Mutant: a run that raised clears the stored value on its way out
\* (st.cache_resource.clear() in an error handler).
EndRunDropCache ==
    /\ proc = "app" /\ pc \in {"rendered", "raised", "shown"}
    /\ pc' = "idle" /\ cacheHit' = FALSE
    /\ cache' = IF pc = "raised" THEN <<>> ELSE cache
    /\ inputDict' = <<>>
    /\ inputData' = <<>> /\ predictCalls' = 0 /\ prediction' = -1
    /\ shown' = "" /\ err' = ""
    /\ UNCHANGED <<proc, repoPresent, prev, dlModel, dlMeta, tmpModel, requestFailed>>
    /\ UNCHANGED pubVars

\* The script run ends (normally or with the exception shown on the page);
\* the process waits for the next request.  The stored value stays.
EndRun ==
    /\ proc = "app" /\ pc \in {"rendered", "raised", "shown"}
    /\ pc' = "idle" /\ cacheHit' = FALSE
    /\ inputDict' = <<>>
    /\ inputData' = <<>> /\ predictCalls' = 0 /\ prediction' = -1
    /\ shown' = "" /\ err' = ""
    /\ UNCHANGED <<proc, repoPresent, prev, cache, dlModel, dlMeta, tmpModel,
                   requestFailed>>
    /\ UNCHANGED pubVars

\* The serving process is stopped; a later one starts with nothing stored.
StopApp ==
    /\ proc = "app" /\ pc = "idle"
    /\ proc' = "none" /\ pc' = "none" /\ token' = None
    /\ cache' = <<>> /\ dlModel' = 0 /\ dlMeta' = 0 /\ requestFailed' = FALSE
    /\ UNCHANGED <<dirExists, files, artifactsDir, missing, ops, repoPresent, prev,
                   tmpModel, cacheHit, inputDict, inputData, predictCalls, prediction,
                   shown, err>>

NextApp ==
    \/ StartApp \/ LoadCached \/ DownloadModel \/ DownloadMetadata
    \/ SubmitForm \/ Predict \/ EndRun \/ StopApp

Next == NextPublish \/ NextApp

Spec == Init /\ [][Next]_vars

-----------------------------------------------------------------------------
(* Properties *)

\* The running script has computed missing_files.
Validated ==
    /\ proc \in Publishers
    /\ \/ pc \in {"probe", "create", "upload", "upload_artifacts", "done"}
       \/ pc = "failed" /\ err \notin {"HF_TOKEN is not set or empty", "folder not found"}

Position(seq, x) == CHOOSE k \in 1..Len(seq) : seq[k] = x

AllRequiredPresent == Range(RequiredFiles(proc)) \subseteq files

\* C1: in each publisher, the reported missing list holds exactly the required
\* files that do not exist, each once and in required-file order, and is empty
\* if and only if every required file exists.
C1_MissingExact ==
    Validated =>
        LET req == RequiredFiles(proc) IN
        /\ Range(missing) = {f \in Range(req) : f \notin files}
        /\ \A i, j \in 1..Len(missing) :
              i < j => Position(req, missing[i]) < Position(req, missing[j])
        /\ (missing = <<>>) <=> AllRequiredPresent

\* Two of the four data files are missing, around one that is present.
C1_Witness ==
    /\ Validated /\ proc = "data"
    /\ missing = <<"y_train.csv", "y_test.csv">>
    /\ "X_test.csv" \in files /\ "README.md" \in files

\* C2: a publisher run that lacks a required file never completes and never
\* calls the remote store: it gets no further than the validation, where it
\* ends in failure.
C2_MissingBlocksRemote ==
    (proc \in Publishers /\ ~AllRequiredPresent) =>
        /\ ops = <<>>
        /\ pc \in {"token", "dir", "validate", "failed"}
        /\ Validated => (pc = "failed" /\ err = "Missing files")

C2_Witness ==
    /\ proc = "model" /\ pc = "failed" /\ err = "Missing files"
    /\ files = {"best_model.joblib"} /\ ops = <<>>

\* C3: every create_repository call directly follows an existence probe that
\* answered "not found"; a probe that failed otherwise, or that found the
\* repository, is never followed by one.
C3_CreateOnlyAfterNotFound ==
    /\ \A i \in 1..Len(ops) :
          ops[i].op = "create_repository" =>
              /\ i > 1
              /\ ops[i - 1].op = "probe_exists"
              /\ ops[i - 1].result = "not_found"
    /\ pc = "create" =>
          /\ ops # <<>>
          /\ ops[Len(ops)] = Call("probe_exists", "", "not_found")
    /\ \A i \in 1..Len(ops) :
          (ops[i].op = "probe_exists" /\ ops[i].result \in {"error", "present"}) =>
              Calls(ops, "create_repository") = <<>>

C3_Witness ==
    /\ proc = "model"
    /\ Len(ops) >= 2
    /\ ops[1] = Call("probe_exists", "", "not_found")
    /\ ops[2].op = "create_repository"

\* C4: when the previous reconcile step found the repository present, or found
\* it absent and created it, the next reconcile step against it makes no
\* create_repository call and its probe does not answer "not found": the two
\* steps together make at most one create_repository call.
C4_ReconcileIdempotent ==
    (proc = "model" /\ prev.outcome \in {"present", "created"}) =>
        /\ prev.creates + Len(Calls(ops, "create_repository")) <= 1
        /\ Calls(ops, "create_repository") = <<>>
        /\ pc # "create"
        /\ \A i \in 1..Len(ops) :
              ops[i].op = "probe_exists" => ops[i].result # "not_found"

\* The run after one that created the repository probes it and finds it.
C4_Witness ==
    /\ proc = "model" /\ prev = [outcome |-> "created", creates |-> 1]
    /\ ops # <<>> /\ ops[1] = Call("probe_exists", "", "present")

\* The reconcile step succeeded before call number i of the running script.
ReconciledBefore(i) ==
    \E j \in 1..(i - 1) :
        \/ ops[j] = Call("probe_exists", "", "present")
        \/ ops[j] = Call("create_repository", "", "ok")

\* C5 as stated: in each of the three publishers, upload_folder is called only
\* after the validation and the reconcile step (probe, and creation when
\* absent) have both succeeded in the same run.
C5_AsStated ==
    proc \in Publishers =>
        \A i \in 1..Len(ops) :
            ops[i].op = "upload_folder" =>
                /\ missing = <<>> /\ AllRequiredPresent
                /\ ReconciledBefore(i)

\* C5 as amended: in each of the three publishers, upload_folder is called only
\* after the validation has succeeded; in model_register.py also only after
\* the reconcile step has succeeded, while data_prep.py and deploy_to_hf.py
\* make no probe and no creation at all.
C5_UploadGated ==
    proc \in Publishers =>
        /\ \A i \in 1..Len(ops) :
              ops[i].op = "upload_folder" =>
                  /\ missing = <<>> /\ AllRequiredPresent
                  /\ proc = "model" => ReconciledBefore(i)
        /\ pc \in {"upload", "upload_artifacts"} =>
              /\ missing = <<>> /\ AllRequiredPresent
              /\ proc = "model" => ReconciledBefore(Len(ops) + 1)
        /\ proc # "model" =>
              /\ Calls(ops, "probe_exists") = <<>>
              /\ Calls(ops, "create_repository") = <<>>

\* model_register.py uploads after having created the repository.
C5_Witness ==
    /\ proc = "model" /\ Len(ops) = 3
    /\ ops[2] = Call("create_repository", "", "ok")
    /\ ops[3].op = "upload_folder"

\* model_register.py and deploy_to_hf.py do not matter to C10.
ProcessedUploads == SelectSeq(ops, LAMBDA c : c.op = "upload_folder" /\ c.arg = "processed")
ArtifactsUploads == SelectSeq(ops, LAMBDA c : c.op = "upload_folder" /\ c.arg = "artifacts")

\* C10: in data_prep.py a failed upload of the processed folder ends the run
\* in failure with no upload of the artifacts folder; the artifacts folder is
\* uploaded only directly after a successful upload of the processed folder.
C10_FailFast ==
    proc = "data" =>
        /\ (\E i \in 1..Len(ops) : ops[i] = Call("upload_folder", "processed", "error")) =>
              /\ pc = "failed"
              /\ ArtifactsUploads = <<>>
        /\ \A i \in 1..Len(ops) :
              (ops[i].op = "upload_folder" /\ ops[i].arg = "artifacts") =>
                  /\ i > 1
                  /\ ops[i - 1] = Call("upload_folder", "processed", "ok")
        /\ pc = "upload_artifacts" =>
              /\ ops # <<>>
              /\ ops[Len(ops)] = Call("upload_folder", "processed", "ok")

\* The processed upload failed although an artifacts folder was waiting.
C10_Witness ==
    /\ proc = "data" /\ artifactsDir /\ pc = "failed"
    /\ ops = <<Call("upload_folder", "processed", "error")>>

\* HF_TOKEN is absent from the environment, or empty.
CredentialAbsent == proc # "none" /\ (token = None \/ token = "")

\* C6 as stated: with HF_TOKEN absent or empty, every publisher and the serving
\* process fail at startup and make no probe, create, upload or download call.
C6_AsStated ==
    CredentialAbsent =>
        /\ proc \in Publishers => (ops = <<>> /\ pc \in {"token", "failed"})
        /\ proc = "app" => (dlModel = 0 /\ dlMeta = 0 /\ cache = <<>>)

\* C6 as amended: with HF_TOKEN absent or empty, every publisher fails at
\* startup, on the credential check, and makes no probe, create or upload
\* call; the serving process has no credential check to fail on: it starts
\* and makes its download calls with the credential as it is.
C6_PublishersNeedToken ==
    CredentialAbsent =>
        /\ proc \in Publishers =>
              /\ ops = <<>>
              /\ pc \in {"token", "failed"}
              /\ pc = "failed" => err = "HF_TOKEN is not set or empty"
        /\ proc = "app" =>
              /\ pc \notin {"token", "failed"}
              /\ err # "HF_TOKEN is not set or empty"

\* A publisher given an empty HF_TOKEN, with every file in place, has failed.
C6_Witness ==
    /\ proc = "deploy" /\ token = "" /\ pc = "failed"
    /\ dirExists /\ AllRequiredPresent

\* C7 as stated: in one serving process the model artifact and the metadata
\* document are each fetched at most once; a load served from the cache makes
\* no download call and the cached pair never changes.
C7_AsStated ==
    /\ [](proc = "app" => (dlModel <= 1 /\ dlMeta <= 1))
    /\ [][(proc = "app" /\ proc' = "app" /\ cache # <<>>) =>
              (cache' = cache /\ dlModel' = dlModel /\ dlMeta' = dlMeta)]_vars

\* C7 as amended: once a load has succeeded in a serving process, every later
\* load returns the same cached pair with no further download call, and the
\* cache is never invalidated; each successful load has fetched each artifact.
\* (A load that fails stores nothing, so the next request downloads again and
\* an artifact can be fetched more than once before the first success.)
C7_CachedAfterFirstSuccess ==
    /\ [](proc = "app" =>
            /\ cacheHit => (cache # <<>> /\ pc # "dl_meta")
            /\ cache # <<>> => (dlModel >= 1 /\ dlMeta >= 1 /\ tmpModel = 0))
    /\ [][(proc = "app" /\ proc' = "app" /\ cache # <<>>) =>
              (cache' = cache /\ dlModel' = dlModel /\ dlMeta' = dlMeta)]_vars

\* A request answered from the cache after a single fetch of each artifact.
C7_Witness ==
    /\ proc = "app" /\ cacheHit /\ pc = "shown"
    /\ dlModel = 1 /\ dlMeta = 1

\* FEATURE_COLUMNS of the loaded metadata lists a name the request lacks.
RequestLacksFeature ==
    /\ proc = "app" /\ cache # <<>>
    /\ \E i \in 1..Len(FeatureColumns(cache[1].metadata)) :
          FeatureColumns(cache[1].metadata)[i] \notin FormFields

\* C8: a submitted request that lacks a name of feature_columns fails with an
\* error; the model is not called and no input vector is built from defaults.
C8_MissingFeatureNoPredict ==
    RequestLacksFeature =>
        /\ predictCalls = 0 /\ prediction = -1 /\ shown = ""
        /\ inputData = <<>>
        /\ pc \notin {"framed", "shown"}
        /\ pc = "raised" => err = "KeyError"

C8_Witness ==
    /\ RequestLacksFeature /\ pc = "raised" /\ err = "KeyError"
    /\ FeatureColumns(cache[1].metadata) = <<"Engine_RPM", "Vibration">>

\* The raw label of the request just answered is not a key of CLASS_MAPPING.
LabelUnmapped ==
    /\ proc = "app" /\ pc = "shown"
    /\ LabelKey(prediction) \notin DOMAIN ClassMapping(cache[1].metadata)

\* C9 as stated: a raw label that is not a key of class_mapping is shown as a
\* fixed default string, whatever class_mapping holds, without an exception.
C9_AsStated ==
    LabelUnmapped =>
        /\ err = ""
        /\ shown = IF prediction = 1 THEN "FAULTY" ELSE "NORMAL"

\* C9 as amended: a raw label that is not a key of class_mapping raises no
\* exception; label 1 is shown as "FAULTY"; any other label is shown as
\* class_mapping's entry for "0" when it has one, and as "NORMAL" only when it
\* has none.
C9_FallbackLabel ==
    LabelUnmapped =>
        LET mapping == ClassMapping(cache[1].metadata) IN
        /\ err = ""
        /\ shown = IF prediction = 1 THEN "FAULTY"
                   ELSE IF "0" \in DOMAIN mapping THEN mapping["0"]
                   ELSE "NORMAL"

\* Label 2 under a mapping for "0" and "1" is shown as the entry for "0".
C9_Witness ==
    /\ LabelUnmapped /\ prediction = 2
    /\ DOMAIN ClassMapping(cache[1].metadata) = {"0", "1"}
    /\ ClassMapping(cache[1].metadata)["0"] = "Broken"
    /\ shown = "Broken"

\* The answer app.py gives to request d under the stored pair c.
ExpectedAnswer(c, d) ==
    LET cols == FeatureColumns(c.metadata)
        label == ModelPredict(c.model, [i \in 1..Len(cols) |-> d[cols[i]]])
    IN  [prediction |-> label,
         shown |-> DisplayLabel(label, ClassMapping(c.metadata))]

\* C11: a request that fails leaves the cached model and metadata unchanged;
\* every request served from the cache after it leaves the cached pair as it
\* is and downloads nothing, and the answer to a request is the answer the
\* cached pair gives to that request alone, whatever failed before it.
C11_FailureLeavesCache ==
    /\ [][(proc = "app" /\ (pc = "raised" \/ pc' = "raised")) =>
              /\ cache' = cache
              /\ cache # <<>> => (dlModel' = dlModel /\ dlMeta' = dlMeta)]_vars
    /\ [][(proc = "app" /\ requestFailed /\ proc' = "app") =>
              (cache # <<>> /\ cache' = cache
               /\ dlModel' = dlModel /\ dlMeta' = dlMeta)]_vars
    /\ [](proc = "app" /\ pc = "shown" =>
            /\ cache # <<>> /\ inputDict # <<>>
            /\ [prediction |-> prediction, shown |-> shown]
                  = ExpectedAnswer(cache[1], inputDict[1]))

\* After a request failed on a missing column, a later page load is served
\* from the cache, each artifact having been fetched once.
C11_Witness ==
    /\ proc = "app" /\ requestFailed /\ cacheHit /\ pc = "rendered"
    /\ dlModel = 1 /\ dlMeta = 1

\* C12: when the request has every listed feature, the vector passed to the
\* model has one entry per name of feature_columns, the i-th being the
\* request's value for feature_columns[i], whatever order the request's
\* fields were built in; the label is the model's answer to that vector; and
\* a request that has every listed feature is never refused.
C12_FeatureOrder ==
    /\ []((proc = "app" /\ pc \in {"framed", "shown"}) =>
            LET d == inputDict[1]
                cols == FeatureColumns(cache[1].metadata)
            IN  /\ \A i \in 1..Len(cols) : cols[i] \in DOMAIN d
                /\ Len(inputData) = Len(cols)
                /\ \A i \in 1..Len(cols) : inputData[i] = d[cols[i]]
                /\ pc = "shown" => prediction = ModelPredict(cache[1].model, inputData))
    /\ [][(proc = "app" /\ pc = "loaded" /\ pc' = "raised") =>
              \E i \in 1..Len(FeatureColumns(cache[1].metadata)) :
                  FeatureColumns(cache[1].metadata)[i] \notin DOMAIN inputDict'[1]]_vars

\* A prediction made for feature_columns listed in another order than the
\* form's: the vector follows feature_columns.
C12_Witness ==
    /\ proc = "app" /\ pc = "shown"
    /\ FeatureColumns(cache[1].metadata) = <<"Fuel_Pressure", "Engine_RPM">>
    /\ inputDict[1]["Fuel_Pressure"] = 2 /\ inputDict[1]["Engine_RPM"] = 1
    /\ inputData = <<2, 1>>

====
